---- MODULE Spec2Model ----
(***************************************************************************)
(* Model of pkg/stanza/fileconsumer/reader_factory.go: the readerFactory   *)
(* and its readerBuilder, which construct Readers (newReader, copy,        *)
(* unsafeReader -> build).  Go pointers are modelled as indices into       *)
(* heaps: `readers` (the *Reader objects), `maps` (the map[string]any      *)
(* attribute maps), `fps` (the *fingerprint.Fingerprint objects) and       *)
(* `pipelines` (the header pipelines), so that aliasing is observable.     *)
(***************************************************************************)
EXTENDS Integers, Sequences, FiniteSets, TLC

VARIABLES cfg, files, paths, readers, maps, fps, pipelines, emitted, cycle, last,
          headerController, selected

vars == <<cfg, files, paths, readers, maps, fps, pipelines, emitted, cycle, last,
          headerController, selected>>

\* ------------------------------------------------------------------ bounds
MaxReaders == 2
MaxLen == 2
MaxListeners == 2
MaxSelected == 4
FpSize == 1

\* ------------------------------------------------------------ basic values
Nil == "nil"
NoRef == 0
NewLine == 0
DataBytes == {1, 2}
Inodes == {1, 2}

logFileName == "log.file.name"
logFilePath == "log.file.path"
logFileNameResolved == "log.file.name_resolved"
logFilePathResolved == "log.file.path_resolved"
FileKeys == {logFileName, logFilePath, logFileNameResolved, logFilePathResolved}

\* ------------------------------------------------------------------- paths
\* A path is a sequence of components; an absolute path starts with "/".
Cwd == <<"/", "srv">>

\* os.File.Name(): the path the handle was opened with.
PathOf(ino) == IF ino = 1 THEN <<"logs", "app.log">> ELSE <<"/", "var", "current">>

NoFile == [ino |-> 0, name |-> <<>>]
Handle(ino) == [ino |-> ino, name |-> PathOf(ino)]
Handles == {Handle(i) : i \in Inodes}

\* filepath.EvalSymlinks: /var/current is a symbolic link to /data/app.log.1.
\* On error Go returns the empty path.
EvalSymlinks(p, symErr) ==
  IF symErr THEN <<>>
  ELSE IF p = <<"/", "var", "current">> THEN <<"/", "data", "app.log.1">>
  ELSE p

\* filepath.Abs: joins a relative path (also the empty one) to the working directory.
Abs(p) == IF p # <<>> /\ p[1] = "/" THEN p ELSE Cwd \o p

\* filepath.Base: the last element; "." for the empty path.
Base(p) == IF p = <<>> THEN "." ELSE p[Len(p)]

RECURSIVE JoinPath(_)
JoinPath(p) ==
  IF p = <<>> THEN ""
  ELSE IF Len(p) = 1 THEN p[1]
  ELSE IF p[1] = "/" THEN "/" \o JoinPath(Tail(p))
  ELSE p[1] \o "/" \o JoinPath(Tail(p))

\* ------------------------------------------------------- map[string]any
EmptyMap == [k \in {} |-> Nil]
MapGet(m, k) == IF k \in DOMAIN m THEN m[k] ELSE Nil
MapSet(m, k, v) == [x \in (DOMAIN m) \cup {k} |-> IF x = k THEN v ELSE m[x]]
MapDelete(m, k) == [x \in (DOMAIN m) \ {k} |-> m[x]]

\* ------------------------------------------------------------ small helpers
Min(a, b) == IF a < b THEN a ELSE b
Prefix(s, n) == SubSeq(s, 1, Min(n, Len(s)))


\* ------------------------------------------------------------ configuration
\* readerFactory: fromBeginning, headerSettings (TRUE: configured, FALSE: nil)
\* and the readerConfig it points to.
Configs ==
  [fromBeginning : BOOLEAN, headerSettings : BOOLEAN,
   includeFileName : BOOLEAN, includeFilePath : BOOLEAN,
   includeFileNameResolved : BOOLEAN, includeFilePathResolved : BOOLEAN,
   fingerprintSize : {FpSize}]

\* The receiver's defaults for the four attributes: the file name only.
DefaultConfigs ==
  {c \in Configs : /\ c.includeFileName /\ ~c.includeFilePath
                   /\ ~c.includeFileNameResolved /\ ~c.includeFilePathResolved}

\* runtime.GOOS: the model is of a non-windows build.
IsWindows == FALSE

\* ---------------------------------------------------------- consumed helpers
\* fingerprint.New(file, size): the first `size` bytes of the file, fewer if
\* the file is shorter.
FingerprintNew(h, size) == Prefix(files[h.ino], size)

\* Reader.offsetToEnd: the current length of the file.
OffsetToEnd(h) == Len(files[h.ino])

\* ------------------------------------------------------------------ builder
\* The steps at which build can fail.
FailPoints == {"none", "splitter", "encoding", "pipelineBuild", "pipelineStart",
               "offsetToEnd", "fingerprint"}

\* newReaderBuilder: every field zero but fileAttributes, a fresh empty map
\* (`attrs` is its address).
NewReaderBuilder(attrs) ==
  [file |-> NoFile, fp |-> NoRef, offset |-> 0, splitFunc |-> Nil,
   headerFinalized |-> FALSE, fileAttributes |-> attrs]

withFile(b, f) == [b EXCEPT !.file = f]
withFingerprint(b, fp) == [b EXCEPT !.fp = fp]
withOffset(b, offset) == [b EXCEPT !.offset = offset]
withSplitterFunc(b, s) == [b EXCEPT !.splitFunc = s]
withHeaderFinalized(b, finalized) == [b EXCEPT !.headerFinalized = finalized]
withFileAttributes(b, attrs) == [b EXCEPT !.fileAttributes = attrs]

\* A build in progress: the Reader r under construction, whether build has
\* returned (done), what it returned (ret: r, or nil when FALSE; err, Nil for
\* no error), and the heaps.
Fail(s, e) == [s EXCEPT !.done = TRUE, !.ret = FALSE, !.err = e]
Return(s) == [s EXCEPT !.done = TRUE, !.ret = TRUE, !.err = Nil]
Running(s) == ~s.done

\* r = &Reader{...}
BuildNew(b, H) ==
  [r |-> [file |-> NoFile, Offset |-> b.offset, Fingerprint |-> NoRef,
          FileAttributes |-> b.fileAttributes,
          HeaderFinalized |-> b.headerFinalized,
          lineSplitFunc |-> Nil, splitFunc |-> Nil, processFunc |-> Nil,
          headerPipeline |-> NoRef, closed |-> FALSE],
   done |-> FALSE, ret |-> FALSE, err |-> Nil,
   maps |-> H.maps, fps |-> H.fps, pipelines |-> H.pipelines]

\* the line split function: the one given, or one built by the splitterFactory
BuildSplitter(b, fail, s) ==
  IF ~Running(s) THEN s
  ELSE IF b.splitFunc # Nil THEN [s EXCEPT !.r.lineSplitFunc = b.splitFunc]
  ELSE IF fail = "splitter" THEN Fail(s, "splitterFactory.Build")
  ELSE [s EXCEPT !.r.lineSplitFunc = "lineSplitFunc"]

\* r.encoding, err = b.encodingConfig.Build()
BuildEncoding(fail, s) ==
  IF ~Running(s) THEN s
  ELSE IF fail = "encoding" THEN Fail(s, "encodingConfig.Build")
  ELSE s

\* BuildHeader with b.headerFinalized left out of the condition.
BuildHeader_IgnoreFinalized(b, fail, s) ==
  IF ~Running(s) THEN s
  ELSE IF ~cfg.headerSettings
    THEN [s EXCEPT !.r.splitFunc = s.r.lineSplitFunc, !.r.processFunc = "emit"]
  ELSE LET s1 == [s EXCEPT !.r.splitFunc = "headerSplitFunc",
                           !.r.processFunc = "consumeHeaderLine"]
       IN IF fail = "pipelineBuild" THEN Fail(s1, "failed to build pipeline")
          ELSE IF fail = "pipelineStart"
            THEN Fail(s1, "failed to start header pipeline")
          ELSE [s1 EXCEPT !.pipelines = Append(s.pipelines,
                                               [started |-> TRUE, output |-> EmptyMap]),
                          !.r.headerPipeline = Len(s.pipelines) + 1]

\* BuildHeader with the error of headerPipeline.Start dropped.
BuildHeader_StartErrorDropped(b, fail, s) ==
  IF ~Running(s) THEN s
  ELSE IF ~cfg.headerSettings \/ b.headerFinalized
    THEN [s EXCEPT !.r.splitFunc = s.r.lineSplitFunc, !.r.processFunc = "emit"]
  ELSE LET s1 == [s EXCEPT !.r.splitFunc = "headerSplitFunc",
                           !.r.processFunc = "consumeHeaderLine"]
       IN IF fail = "pipelineBuild" THEN Fail(s1, "failed to build pipeline")
          ELSE IF fail = "pipelineStart"
            THEN [s1 EXCEPT !.pipelines = Append(s.pipelines,
                                                 [started |-> FALSE, output |-> EmptyMap]),
                            !.r.headerPipeline = Len(s.pipelines) + 1]
          ELSE [s1 EXCEPT !.pipelines = Append(s.pipelines,
                                               [started |-> TRUE, output |-> EmptyMap]),
                          !.r.headerPipeline = Len(s.pipelines) + 1]

\* the phase the Reader starts in, and the header pipeline
BuildHeader(b, fail, s) ==
  IF ~Running(s) THEN s
  ELSE IF ~cfg.headerSettings \/ b.headerFinalized
    THEN [s EXCEPT !.r.splitFunc = s.r.lineSplitFunc, !.r.processFunc = "emit"]
  ELSE LET s1 == [s EXCEPT !.r.splitFunc = "headerSplitFunc",
                           !.r.processFunc = "consumeHeaderLine"]
       IN IF fail = "pipelineBuild" THEN Fail(s1, "failed to build pipeline")
          ELSE IF fail = "pipelineStart"
            THEN Fail(s1, "failed to start header pipeline")
          ELSE [s1 EXCEPT !.pipelines = Append(s.pipelines,
                                               [started |-> TRUE, output |-> EmptyMap]),
                          !.r.headerPipeline = Len(s.pipelines) + 1]

\* BuildUnbound with "path", "uninitialized" put into the attributes of the
\* Reader instead of into its logger.
BuildUnbound_Labelled(b, s) ==
  IF ~Running(s) THEN s
  ELSE IF b.file = NoFile
    THEN Return([s EXCEPT !.maps[b.fileAttributes] = MapSet(@, "path", "uninitialized")])
  ELSE s

\* if b.file == nil { return r, nil }
BuildUnbound(b, s) ==
  IF ~Running(s) THEN s
  ELSE IF b.file = NoFile THEN Return(s)
  ELSE s

\* SetOrDelete without the delete of a key that is not included.
SetOrDelete_NoDelete(M, m, include, key, value) ==
  IF include THEN [M EXCEPT ![m] = MapSet(M[m], key, value)]
  ELSE M

\* one of the four file attributes: set when included, else deleted when the
\* map holds a non-nil value for it (r.FileAttributes is the map at address m)
SetOrDelete(M, m, include, key, value) ==
  IF include THEN [M EXCEPT ![m] = MapSet(M[m], key, value)]
  ELSE IF MapGet(M[m], key) # Nil THEN [M EXCEPT ![m] = MapDelete(M[m], key)]
  ELSE M

\* r.file, r.FileAttributes and the file name and path attributes
BuildAttributes(b, symErr, s) ==
  IF ~Running(s) THEN s
  ELSE LET name == b.file.name
           resolved == IF IsWindows THEN name ELSE EvalSymlinks(name, symErr)
           abs == Abs(resolved)
           m == b.fileAttributes
           M1 == SetOrDelete(s.maps, m, cfg.includeFileName, logFileName, Base(name))
           M2 == SetOrDelete(M1, m, cfg.includeFilePath, logFilePath, JoinPath(name))
           M3 == SetOrDelete(M2, m, cfg.includeFileNameResolved, logFileNameResolved,
                             Base(abs))
           M4 == SetOrDelete(M3, m, cfg.includeFilePathResolved, logFilePathResolved,
                             JoinPath(abs))
       IN [s EXCEPT !.r.file = b.file, !.r.FileAttributes = m, !.maps = M4]

\* BuildOffset with the end of the file added to the Offset the Reader has.
BuildOffset_Relative(b, fail, s) ==
  IF ~Running(s) THEN s
  ELSE IF cfg.fromBeginning THEN s
  ELSE IF fail = "offsetToEnd" THEN Fail(s, "offsetToEnd")
  ELSE [s EXCEPT !.r.Offset = s.r.Offset + OffsetToEnd(s.r.file)]

\* BuildOffset with the condition on fromBeginning inverted.
BuildOffset_Inverted(b, fail, s) ==
  IF ~Running(s) THEN s
  ELSE IF ~cfg.fromBeginning THEN s
  ELSE IF fail = "offsetToEnd" THEN Fail(s, "offsetToEnd")
  ELSE [s EXCEPT !.r.Offset = OffsetToEnd(s.r.file)]

\* if !b.fromBeginning { r.offsetToEnd() }
BuildOffset(b, fail, s) ==
  IF ~Running(s) THEN s
  ELSE IF cfg.fromBeginning THEN s
  ELSE IF fail = "offsetToEnd" THEN Fail(s, "offsetToEnd")
  ELSE [s EXCEPT !.r.Offset = OffsetToEnd(s.r.file)]

\* BuildFingerprint that captures from the file whether or not one was given.
BuildFingerprint_AlwaysCapture(b, fail, s) ==
  IF ~Running(s) THEN s
  ELSE IF fail = "fingerprint" THEN Fail(s, "newFingerprint")
  ELSE Return([s EXCEPT
         !.fps = Append(s.fps, FingerprintNew(s.r.file, cfg.fingerprintSize)),
         !.r.Fingerprint = Len(s.fps) + 1])

\* the fingerprint: the one given, or one captured from the file
BuildFingerprint(b, fail, s) ==
  IF ~Running(s) THEN s
  ELSE IF b.fp # NoRef THEN Return([s EXCEPT !.r.Fingerprint = b.fp])
  ELSE IF fail = "fingerprint" THEN Fail(s, "newFingerprint")
  ELSE Return([s EXCEPT
         !.fps = Append(s.fps, FingerprintNew(s.r.file, cfg.fingerprintSize)),
         !.r.Fingerprint = Len(s.fps) + 1])

\* readerBuilder.build
Build(b, fail, symErr, H) ==
  BuildFingerprint(b, fail,
    BuildOffset(b, fail,
      BuildAttributes(b, symErr,
        BuildUnbound(b,
          BuildHeader(b, fail,
            BuildEncoding(fail,
              BuildSplitter(b, fail,
                BuildNew(b, H))))))))


\* --------------------------------------------------------------- the heaps
Heap(M, F) == [maps |-> M, fps |-> F, pipelines |-> pipelines]

\* util.MapCopy: a new map with the entries of the map at address m.
MapCopy(M, m) == Append(M, M[m])

\* Fingerprint.Copy: a new Fingerprint with the bytes of the one at address f.
FingerprintCopy(F, f) == Append(F, F[f])

\* What a Reader holds, with its pointers followed.
View(r, M, F) ==
  [Offset |-> r.Offset, HeaderFinalized |-> r.HeaderFinalized,
   hasFingerprint |-> r.Fingerprint # NoRef,
   Fingerprint |-> IF r.Fingerprint # NoRef THEN F[r.Fingerprint] ELSE <<>>,
   FileAttributes |-> M[r.FileAttributes]]

NoView ==
  [Offset |-> 0, HeaderFinalized |-> FALSE, hasFingerprint |-> FALSE,
   Fingerprint |-> <<>>, FileAttributes |-> EmptyMap]

ReaderView(i) == View(readers[i], maps, fps)

\* The last call: its arguments (file, old, and whether a Fingerprint was
\* given), what it returned (r, an address of `readers`, or NoRef for nil; its
\* error), what `old` held when the call began, and the number of header
\* pipelines the call started.
NoCall ==
  [op |-> "none", file |-> NoFile, old |-> NoRef, given |-> FALSE,
   r |-> NoRef, err |-> Nil, before |-> NoView, started |-> 0, outcomes |-> <<>>,
   retry |-> FALSE, again |-> FALSE]

\* The call returns: a Reader that build returned is kept, one it dropped is
\* garbage together with what was allocated for it; what build did to maps
\* that already existed, and the pipelines it started, remain.
Returned(op, h, old, given, res) ==
  /\ Len(res.pipelines) <= MaxReaders
  /\ pipelines' = res.pipelines
  /\ IF res.ret
       THEN /\ readers' = Append(readers, res.r)
            /\ maps' = res.maps
            /\ fps' = res.fps
       ELSE /\ readers' = readers
            /\ maps' = SubSeq(res.maps, 1, Len(maps))
            /\ fps' = fps
  /\ last' = [op |-> op, file |-> h, old |-> old, given |-> given,
              r |-> IF res.ret THEN Len(readers) + 1 ELSE NoRef,
              err |-> res.err,
              before |-> IF old = NoRef THEN NoView ELSE ReaderView(old),
              started |-> Len(res.pipelines) - Len(pipelines),
              outcomes |-> <<>>, retry |-> FALSE, again |-> FALSE]
  /\ UNCHANGED <<cfg, files, paths, emitted, cycle>>
  /\ UNCHANGED <<headerController, selected>>

\* ------------------------------------------------------------ readerFactory
\* newReader(file, fp): fp is nil (given = FALSE) or a Fingerprint the caller
\* has just captured from the file.
NewReaderIn(h, given, fail, symErr, M0, F0) ==
  LET F == IF given THEN Append(F0, FingerprintNew(h, cfg.fingerprintSize)) ELSE F0
      M == Append(M0, EmptyMap)
      b == withFingerprint(withFile(NewReaderBuilder(Len(M)), h),
                           IF given THEN Len(F) ELSE NoRef)
  IN Build(b, fail, symErr, Heap(M, F))

NewReaderBuilt(h, given, fail, symErr) == NewReaderIn(h, given, fail, symErr, maps, fps)

NewReader(h, given, fail, symErr) ==
  /\ Len(readers) < MaxReaders
  /\ Returned("newReader", h, NoRef, given, NewReaderBuilt(h, given, fail, symErr))

\* CopyBuilder with old's file instead of newFile.
CopyBuilder_OldFile(old, newFile, fp, attrs) ==
  withHeaderFinalized(
    withFileAttributes(
      withSplitterFunc(
        withOffset(
          withFingerprint(
            withFile(NewReaderBuilder(NoRef), old.file),
            fp),
          old.Offset),
        old.lineSplitFunc),
      attrs),
    old.HeaderFinalized)

\* CopyBuilder without withHeaderFinalized.
CopyBuilder_NoHeaderFinalized(old, newFile, fp, attrs) ==
  withFileAttributes(
    withSplitterFunc(
      withOffset(
        withFingerprint(
          withFile(NewReaderBuilder(NoRef), newFile),
          fp),
        old.Offset),
      old.lineSplitFunc),
    attrs)

\* CopyBuilder with old's attribute map itself instead of its copy.
CopyBuilder_SharedAttributes(old, newFile, fp, attrs) ==
  withHeaderFinalized(
    withFileAttributes(
      withSplitterFunc(
        withOffset(
          withFingerprint(
            withFile(NewReaderBuilder(NoRef), newFile),
            fp),
          old.Offset),
        old.lineSplitFunc),
      old.FileAttributes),
    old.HeaderFinalized)

\* The builder copy fills: fp and attrs are the addresses of the copies of
\* old's Fingerprint and attribute map.
CopyBuilder(old, newFile, fp, attrs) ==
  withHeaderFinalized(
    withFileAttributes(
      withSplitterFunc(
        withOffset(
          withFingerprint(
            withFile(NewReaderBuilder(NoRef), newFile),
            fp),
          old.Offset),
        old.lineSplitFunc),
      attrs),
    old.HeaderFinalized)

CopyIn(old, newFile, fail, symErr, M0, F0) ==
  LET F == FingerprintCopy(F0, old.Fingerprint)
      M == MapCopy(M0, old.FileAttributes)
  IN Build(CopyBuilder(old, newFile, Len(F), Len(M)), fail, symErr, Heap(M, F))

CopyBuilt(o, newFile, fail, symErr) == CopyIn(readers[o], newFile, fail, symErr, maps, fps)

\* copy(old, newFile); old has a Fingerprint (Copy dereferences it).
Copy(o, newFile, fail, symErr) ==
  /\ Len(readers) < MaxReaders
  /\ readers[o].Fingerprint # NoRef
  /\ Returned("copy", newFile, o, TRUE, CopyBuilt(o, newFile, fail, symErr))

UnsafeReaderBuilt(fail) ==
  LET M == Append(maps, EmptyMap)
  IN Build(NewReaderBuilder(Len(M)), fail, FALSE, Heap(M, fps))

\* unsafeReader()
UnsafeReader(fail) ==
  /\ Len(readers) < MaxReaders
  /\ Returned("unsafeReader", NoFile, NoRef, FALSE, UnsafeReaderBuilt(fail))

\* ------------------------------------------------------------------ Reader
\* NextNewline with the end of the file taken for a boundary.
NextNewline_OrEnd(content, k) ==
  IF k > Len(content) THEN 0
  ELSE LET nls == {j \in k..Len(content) : content[j] = NewLine}
       IN IF nls = {} THEN Len(content)
          ELSE CHOOSE j \in nls : \A x \in nls : j <= x

\* The index of the first newline of `content` at or after index k; 0 if none.
RECURSIVE NextNewline(_, _)
NextNewline(content, k) ==
  IF k > Len(content) THEN 0
  ELSE IF content[k] = NewLine THEN k
  ELSE NextNewline(content, k + 1)

\* The header pattern: a line that starts with byte 1 is a header line.
IsHeaderLine(line) == line # <<>> /\ line[1] = 1

\* util.MapMerge: the entries of `from` upserted into `into`.
MapMerge(into, from) ==
  [k \in (DOMAIN into) \cup (DOMAIN from) |->
     IF k \in DOMAIN from THEN from[k] ELSE into[k]]

\* What the metadata operators extract from a header line: the field
\* "header", and from a header line of more than one byte also a field named
\* log.file.path whose value is null.
HeaderAttributes(line) ==
  IF Len(line) > 1 THEN MapSet(MapSet(EmptyMap, "header", "1"), logFilePath, Nil)
  ELSE MapSet(EmptyMap, "header", "1")

\* Downstream emission of one record read by the Reader rs.r: success, or
\* failure once the consumer accepts no more.
Emit(line, rs) ==
  IF rs.accepts = 0 THEN [rs EXCEPT !.failed = TRUE]
  ELSE [rs EXCEPT !.emitted =
          Append(rs.emitted, [ino |-> rs.r.file.ino, start |-> rs.r.Offset, line |-> line]),
                  !.accepts = @ - 1]

\* consumeHeaderLine: a header line goes to the header pipeline, whose output
\* accumulates; the first other line finalizes the header: the accumulated
\* attributes are merged into the Reader's, the pipeline is stopped, the
\* Reader switches to its line split function and to emit for good, and the
\* line is an ordinary record.
ConsumeHeaderLine(line, rs) ==
  LET p == rs.r.headerPipeline
  IN IF IsHeaderLine(line)
       THEN [rs EXCEPT !.pipelines[p].output = MapMerge(@, HeaderAttributes(line))]
       ELSE Emit(line,
              [rs EXCEPT !.r.HeaderFinalized = TRUE,
                         !.r.splitFunc = rs.r.lineSplitFunc,
                         !.r.processFunc = "emit",
                         !.maps[rs.r.FileAttributes] = MapMerge(@, rs.pipelines[p].output),
                         !.pipelines[p].started = FALSE])

\* Process with Offset moved past the record whether or not it was emitted.
Process_AdvanceOnFailure(line, nl, rs) ==
  LET done == IF rs.r.processFunc = "emit" THEN Emit(line, rs)
              ELSE ConsumeHeaderLine(line, rs)
  IN [done EXCEPT !.r.Offset = nl]

\* One record handed to the active process function; Offset moves past it
\* once it is processed, and stays before it when its emission failed.
Process(line, nl, rs) ==
  LET done == IF rs.r.processFunc = "emit" THEN Emit(line, rs)
              ELSE ConsumeHeaderLine(line, rs)
  IN IF done.failed THEN done ELSE [done EXCEPT !.r.Offset = nl]

\* The state a read works on: the Reader, the heaps it touches, and the number
\* of records the downstream consumer accepts before it fails.
Scan(r, M, P, E, accepts) ==
  [r |-> r, maps |-> M, pipelines |-> P, emitted |-> E,
   accepts |-> accepts, failed |-> FALSE]

\* Every complete record from Offset to the end of the file; a partial
\* trailing record is left for the next cycle, and so is the record whose
\* emission failed, with all that follows it.
RECURSIVE ReadFrom(_, _)
ReadFrom(content, rs) ==
  LET nl == NextNewline(content, rs.r.Offset + 1)
  IN IF nl = 0 \/ rs.failed THEN rs
     ELSE ReadFrom(content, Process(SubSeq(content, rs.r.Offset + 1, nl - 1), nl, rs))

\* startsWith(shorter, longer)
StartsWith(shorter, longer) ==
  /\ Len(shorter) <= Len(longer)
  /\ SubSeq(longer, 1, Len(shorter)) = shorter

\* The Reader's own fingerprint refresh: captured again from the file it
\* reads, in place.
Refreshed(F, f, content) ==
  IF f # NoRef THEN [F EXCEPT ![f] = Prefix(content, cfg.fingerprintSize)] ELSE F

\* readToEnd() of the Reader at address i, the downstream consumer accepting
\* `accepts` records and failing on the next.
ReadToEndUntil(i, accepts) ==
  LET r == readers[i]
      content == files[r.file.ino]
      rs == ReadFrom(content, Scan(r, maps, pipelines, emitted, accepts))
  IN /\ r.file # NoFile
     /\ ~r.closed
     /\ Len(rs.emitted) <= MaxLen
     /\ readers' = [readers EXCEPT ![i] = rs.r]
     /\ maps' = rs.maps
     /\ pipelines' = rs.pipelines
     /\ emitted' = rs.emitted
     /\ fps' = Refreshed(fps, r.Fingerprint, content)
     /\ last' = [NoCall EXCEPT !.op = "readToEnd", !.r = i,
                               !.err = IF rs.failed THEN "emit" ELSE Nil,
                               !.retry = /\ last.op = "readToEnd" /\ last.r = i
                                         /\ last.err = "emit" /\ ~rs.failed,
                               !.again = /\ last.op = "readToEnd" /\ last.r = i
                                         /\ last.err = Nil]
     /\ UNCHANGED <<cfg, files, paths, cycle>>
     /\ UNCHANGED <<headerController, selected>>

\* readToEnd() of the Reader at address i, every emission succeeding.
ReadToEnd(i) ==
  /\ readers[i].file # NoFile
  /\ ReadToEndUntil(i, Len(files[readers[i].file.ino]))

\* Close() of the Reader at address i: its handle is released; the Reader is
\* Closed for good.
Close(i) ==
  /\ readers[i].file # NoFile
  /\ ~readers[i].closed
  /\ readers' = [readers EXCEPT ![i].closed = TRUE]
  /\ last' = [NoCall EXCEPT !.op = "close", !.r = i]
  /\ UNCHANGED <<cfg, files, paths, maps, fps, pipelines, emitted, cycle>>
  /\ UNCHANGED <<headerController, selected>>

\* Addresses after the objects outside `live` are collected.
Rank(x, live) == Cardinality({y \in live : y <= x})
Compact(H, live) ==
  [k \in 1..Cardinality(live) |-> H[CHOOSE x \in live : Rank(x, live) = k]]
Moved(ref, live) == IF ref = NoRef THEN NoRef ELSE Rank(ref, live)

\* -------------------------------------------------------------- environment
\* The writer of the live log file appends records of one data byte and a
\* newline; file 1 has been rotated away and is no longer written.
LiveInodes == {2}

AppendByte(ino, byte) ==
  /\ Len(files[ino]) < MaxLen
  /\ IF Len(files[ino]) % 2 = 0 THEN byte = 2 ELSE byte = NewLine
  /\ files' = [files EXCEPT ![ino] = Append(@, byte)]
  /\ last' = NoCall
  /\ UNCHANGED <<cfg, paths, readers, maps, fps, pipelines, emitted, cycle>>
  /\ UNCHANGED <<headerController, selected>>

\* The file is truncated to length 0 (copy-truncate rotation).
Truncate(ino) ==
  /\ files[ino] # <<>>
  /\ files' = [files EXCEPT ![ino] = <<>>]
  /\ last' = NoCall
  /\ UNCHANGED <<cfg, paths, readers, maps, fps, pipelines, emitted, cycle>>
  /\ UNCHANGED <<headerController, selected>>

\* The page's HeaderController before it is constructed.
NoController == [componentListeners |-> <<>>, pipelineType |-> "undefined"]

\* Outside the engine no path is watched and no cycle runs.
NoPaths == [p \in {1, 2} |-> 0]
NoCycle == [pc |-> "none", rotated |-> FALSE, truncated |-> FALSE,
            since |-> [i \in Inodes |-> -1], mark |-> 0]

\* ------------------------------------------------------------ specification
InitFiles == [i \in Inodes |-> IF i = 1 THEN <<1, NewLine, 1>> ELSE <<>>]

Init ==
  /\ cfg \in DefaultConfigs
  /\ files = InitFiles
  /\ readers = <<>>
  /\ maps = <<>>
  /\ fps = <<>>
  /\ pipelines = <<>>
  /\ emitted = <<>>
  /\ paths = NoPaths
  /\ cycle = NoCycle
  /\ last = NoCall
  /\ headerController = NoController
  /\ selected = <<>>

\* Every step of build succeeds, and the files change under the Readers.
Next ==
  \/ \E h \in Handles, given \in BOOLEAN : NewReader(h, given, "none", FALSE)
  \/ \E o \in 1..Len(readers), h \in Handles : Copy(o, h, "none", FALSE)
  \/ UnsafeReader("none")
  \/ \E ino \in LiveInodes, byte \in DataBytes \cup {NewLine} : AppendByte(ino, byte)
  \/ \E ino \in LiveInodes : Truncate(ino)
  \/ \E i \in 1..Len(readers) : ReadToEnd(i)

Spec == Init /\ [][Next]_vars

\* ------------------------------------------------- every failure of build
\* Files that do not change: each holds a header line and a record.
StaticFiles ==
  [i \in Inodes |-> IF i = 1 THEN <<1, 1, NewLine, 2, NewLine>> ELSE <<1, NewLine, 2, NewLine>>]

FailInit ==
  /\ cfg \in DefaultConfigs
  /\ files = StaticFiles
  /\ readers = <<>>
  /\ maps = <<>>
  /\ fps = <<>>
  /\ pipelines = <<>>
  /\ emitted = <<>>
  /\ paths = NoPaths
  /\ cycle = NoCycle
  /\ last = NoCall
  /\ headerController = NoController
  /\ selected = <<>>

\* build fails at any of its steps, or at none.
FailNext ==
  \/ \E h \in Handles, given \in BOOLEAN, fail \in FailPoints :
       NewReader(h, given, fail, FALSE)
  \/ \E o \in 1..Len(readers), h \in Handles, fail \in FailPoints :
       Copy(o, h, fail, FALSE)
  \/ \E fail \in FailPoints : UnsafeReader(fail)
  \/ \E i \in 1..Len(readers) : ReadToEnd(i)

FailSpec == FailInit /\ [][FailNext]_vars

\* ------------------------------------------------ handles and their owners
OwnInit ==
  /\ cfg \in DefaultConfigs
  /\ files = StaticFiles
  /\ readers = <<>>
  /\ maps = <<>>
  /\ fps = <<>>
  /\ pipelines = <<>>
  /\ emitted = <<>>
  /\ paths = NoPaths
  /\ cycle = NoCycle
  /\ last = NoCall
  /\ headerController = NoController
  /\ selected = <<>>

\* Any sequence of newReader, copy and Close, and reads of the Readers that
\* are not Closed; the caller passes whatever handle it likes.
OwnNext ==
  \/ \E h \in Handles : NewReader(h, TRUE, "none", FALSE)
  \/ \E o \in 1..Len(readers), h \in Handles : Copy(o, h, "none", FALSE)
  \/ \E i \in 1..Len(readers) : Close(i)
  \/ \E i \in 1..Len(readers) : ReadToEnd(i)

OwnSpec == OwnInit /\ [][OwnNext]_vars

\* ------------------------------------------------- the downstream consumer
EmitInit ==
  /\ cfg \in DefaultConfigs
  /\ files = StaticFiles
  /\ readers = <<>>
  /\ maps = <<>>
  /\ fps = <<>>
  /\ pipelines = <<>>
  /\ emitted = <<>>
  /\ paths = NoPaths
  /\ cycle = NoCycle
  /\ last = NoCall
  /\ headerController = NoController
  /\ selected = <<>>

\* Readers built on the files, and reads during which the downstream consumer
\* fails after any number of records.
EmitNext ==
  \/ \E h \in Handles : NewReader(h, FALSE, "none", FALSE)
  \/ \E i \in 1..Len(readers), accepts \in 0..MaxLen : ReadToEndUntil(i, accepts)

EmitSpec == EmitInit /\ [][EmitNext]_vars

\* --------------------------------------------------------- HeaderController
\* The component listeners of the page, and the pipeline types of the
\* header's selection.
Listeners == 1..MaxListeners
PipelineTypes == {"metrics", "traces"}

\* forEach in reverse.
Notified_Reversed(ls, pipelineType) ==
  [k \in 1..Len(ls) |-> [listener |-> ls[Len(ls) + 1 - k], pipelineType |-> pipelineType]]

\* componentListeners.forEach(l => l.pipelineTypeSelected(pipelineType)): the
\* calls the listeners receive, in order.
Notified(ls, pipelineType) ==
  [k \in 1..Len(ls) |-> [listener |-> ls[k], pipelineType |-> pipelineType]]

\* addComponentListener(componentListener)
AddComponentListener(l) ==
  /\ Len(headerController.componentListeners) <= MaxListeners
  /\ headerController' = [headerController EXCEPT !.componentListeners = Append(@, l)]
  /\ last' = [NoCall EXCEPT !.op = "addComponentListener"]
  /\ UNCHANGED <<cfg, files, paths, readers, maps, fps, pipelines, emitted, cycle>>
  /\ UNCHANGED selected

\* pipelineTypeChanged(pipelineType)
PipelineTypeChanged(pipelineType) ==
  /\ Len(selected) + Len(headerController.componentListeners) <= MaxSelected
  /\ headerController' = [headerController EXCEPT !.pipelineType = pipelineType]
  /\ selected' = selected \o Notified(headerController.componentListeners, pipelineType)
  /\ last' = [NoCall EXCEPT !.op = "pipelineTypeChanged"]
  /\ UNCHANGED <<cfg, files, paths, readers, maps, fps, pipelines, emitted, cycle>>

\* getPipelineType()
GetPipelineType == headerController.pipelineType

HeaderInit ==
  /\ cfg \in {c \in DefaultConfigs : c.fromBeginning /\ ~c.headerSettings}
  /\ files = StaticFiles
  /\ readers = <<>>
  /\ maps = <<>>
  /\ fps = <<>>
  /\ pipelines = <<>>
  /\ emitted = <<>>
  /\ paths = NoPaths
  /\ cycle = NoCycle
  /\ last = NoCall
  /\ headerController = NoController
  /\ selected = <<>>

HeaderNext ==
  \/ \E l \in Listeners : AddComponentListener(l)
  \/ \E t \in PipelineTypes : PipelineTypeChanged(t)

HeaderSpec == HeaderInit /\ [][HeaderNext]_vars

\* --------------------------------------- placeholders, every configuration
UnsafeInit ==
  /\ cfg \in Configs
  /\ files = StaticFiles
  /\ readers = <<>>
  /\ maps = <<>>
  /\ fps = <<>>
  /\ pipelines = <<>>
  /\ emitted = <<>>
  /\ paths = NoPaths
  /\ cycle = NoCycle
  /\ last = NoCall
  /\ headerController = NoController
  /\ selected = <<>>

\* Placeholders are built next to Readers of files, at every fail point.
UnsafeNext ==
  \/ \E fail \in FailPoints : UnsafeReader(fail)
  \/ \E h \in Handles : NewReader(h, FALSE, "none", FALSE)

UnsafeSpec == UnsafeInit /\ [][UnsafeNext]_vars

\* ------------------------------------------- every configuration; restarts

\* The include flags in which two configurations differ.
FlagsChanged(c, d) ==
  {k \in {"includeFileName", "includeFilePath",
           "includeFileNameResolved", "includeFilePathResolved"} : c[k] # d[k]}

\* The process restarts with one include flag changed: the Readers it
\* tracked come back from the checkpoint store, each an unsafeReader() of the
\* new factory into which the persisted Offset, Fingerprint, FileAttributes
\* and HeaderFinalized are decoded; the pipelines of the old process are gone.
\* The process that restarts tracks files only, none of them a Reader that
\* itself came from a checkpoint, and can still build a Reader afterwards.
Restart(c) ==
  /\ readers # <<>>
  /\ Len(readers) < MaxReaders
  /\ \A i \in 1..Len(readers) : readers[i].file # NoFile
  /\ Cardinality(FlagsChanged(c, cfg)) = 1
  /\ c.fromBeginning = cfg.fromBeginning
  /\ c.headerSettings = cfg.headerSettings
  /\ cfg' = c
  /\ readers' = [i \in 1..Len(readers) |->
       [readers[i] EXCEPT
          !.file = NoFile,
          !.lineSplitFunc = "lineSplitFunc",
          !.splitFunc = IF c.headerSettings THEN "headerSplitFunc" ELSE "lineSplitFunc",
          !.processFunc = IF c.headerSettings THEN "consumeHeaderLine" ELSE "emit",
          !.headerPipeline = IF c.headerSettings THEN i ELSE NoRef]]
  /\ pipelines' = [i \in 1..(IF c.headerSettings THEN Len(readers) ELSE 0) |->
                     [started |-> TRUE, output |-> EmptyMap]]
  /\ last' = [NoCall EXCEPT !.op = "restart"]
  /\ UNCHANGED <<files, paths, maps, fps, emitted, cycle>>
  /\ UNCHANGED <<headerController, selected>>

AttrInit ==
  /\ cfg \in {c \in Configs : c.fromBeginning}
  /\ files = StaticFiles
  /\ readers = <<>>
  /\ maps = <<>>
  /\ fps = <<>>
  /\ pipelines = <<>>
  /\ emitted = <<>>
  /\ paths = NoPaths
  /\ cycle = NoCycle
  /\ last = NoCall
  /\ headerController = NoController
  /\ selected = <<>>

AttrNext ==
  \/ \E h \in Handles, symErr \in BOOLEAN : NewReader(h, FALSE, "none", symErr)
  \/ \E o \in 1..Len(readers), h \in Handles, symErr \in BOOLEAN :
       Copy(o, h, "none", symErr)
  \/ \E i \in 1..Len(readers) : ReadToEnd(i)
  \/ \E c \in Configs : Restart(c)

AttrSpec == AttrInit /\ [][AttrNext]_vars

\* ------------------------------------------------------ engine: reconciler
\* The longest a watched file grows.
EngineLen == MaxLen + 1

\* The watched paths: 1 is the log file, 2 the name it is rotated to.
Watched == {1, 2}
PathName(p) == IF p = 1 THEN <<"logs", "app.log">> ELSE <<"logs", "app.log.1">>

\* The current path list, each path opened and its Fingerprint captured.
Candidates == {p \in Watched : paths[p] # 0}
Open(p) == [ino |-> paths[p], name |-> PathName(p)]
Capture(p) == Prefix(files[paths[p]], cfg.fingerprintSize)

PriorPath(r) == CHOOSE p \in Watched : PathName(p) = r.file.name
PriorFp(r) == IF r.Fingerprint = NoRef THEN <<>> ELSE fps[r.Fingerprint]

\* The candidates that carry R's fingerprint, unchanged or grown; among them
\* the longer fingerprint is preferred, then R's prior path.
Matches(r, avail) == {p \in avail : StartsWith(PriorFp(r), Capture(p))}

Preferred(r, avail) ==
  LET ms == Matches(r, avail)
      longest == {p \in ms : \A q \in ms : Len(Capture(q)) <= Len(Capture(p))}
  IN IF PriorPath(r) \in longest THEN PriorPath(r)
     ELSE CHOOSE p \in longest : \A q \in longest : p <= q

\* One-to-one matching: for the Readers i.. of the previous cycle, the path
\* of the candidate each is matched to, 0 for none.
RECURSIVE Matching(_, _)
Matching(i, avail) ==
  IF i > Len(readers) THEN <<>>
  ELSE IF Matches(readers[i], avail) = {} THEN <<0>> \o Matching(i + 1, avail)
  ELSE LET p == Preferred(readers[i], avail)
       IN <<p>> \o Matching(i + 1, avail \ {p})

\* The outcome of the previous Reader i under the matching m.
Outcome(i, m) ==
  LET r == readers[i]
      claimed == {m[k] : k \in 1..Len(m)}
  IN IF m[i] # 0
       THEN [kind |-> IF Open(m[i]) = r.file THEN "continue" ELSE "rotate",
             path |-> m[i]]
     ELSE IF PriorPath(r) \in Candidates \ claimed
       THEN [kind |-> "truncate", path |-> PriorPath(r)]
     ELSE [kind |-> "vanish", path |-> 0]

\* The previous Readers i.. carried into this cycle: a continuing Reader is
\* kept as it is, a rotated one is copied onto the new handle, a truncated one
\* is copied with Offset zero, a vanished one is closed.
RECURSIVE Continued(_, _, _)
Continued(i, m, acc) ==
  IF i > Len(readers) THEN acc
  ELSE LET r == readers[i]
           o == Outcome(i, m)
           before == View(r, maps, fps)
           old == IF o.kind = "truncate" THEN [r EXCEPT !.Offset = 0] ELSE r
           res == CopyIn(old, Open(o.path), "none", FALSE, acc.maps, acc.fps)
       IN IF o.kind = "continue"
            THEN Continued(i + 1, m,
                   [acc EXCEPT !.readers = Append(@, r),
                               !.outcomes = Append(@, [kind |-> o.kind, before |-> before,
                                                       r |-> Len(acc.readers) + 1])])
          ELSE IF o.kind = "vanish"
            THEN Continued(i + 1, m,
                   [acc EXCEPT !.outcomes = Append(@, [kind |-> o.kind, before |-> before,
                                                       r |-> NoRef])])
          ELSE Continued(i + 1, m,
                 [readers |-> Append(acc.readers, res.r),
                  maps |-> res.maps, fps |-> res.fps,
                  outcomes |-> Append(acc.outcomes, [kind |-> o.kind, before |-> before,
                                                     r |-> Len(acc.readers) + 1])])

\* A candidate that matches no previous Reader is a new file.
RECURSIVE Discovered(_, _)
Discovered(ps, acc) ==
  IF ps = {} THEN acc
  ELSE LET p == CHOOSE x \in ps : \A y \in ps : x <= y
           res == NewReaderIn(Open(p), TRUE, "none", FALSE, acc.maps, acc.fps)
       IN Discovered(ps \ {p},
            [readers |-> Append(acc.readers, res.r),
             maps |-> res.maps, fps |-> res.fps,
             outcomes |-> Append(acc.outcomes, [kind |-> "new", before |-> NoView,
                                                r |-> Len(acc.readers) + 1])])

\* The Offset at which the first Reader of inode ino started.
Since(ino, rs) ==
  IF cycle.since[ino] = -1 /\ \E k \in 1..Len(rs) : rs[k].file.ino = ino
    THEN LET k == CHOOSE j \in 1..Len(rs) : rs[j].file.ino = ino IN rs[k].Offset
  ELSE cycle.since[ino]

\* The reconciliation pass of a cycle.
Reconcile ==
  /\ cycle.pc = "idle"
  /\ LET m == Matching(1, Candidates)
         claimed == {Outcome(i, m).path : i \in 1..Len(readers)}
         kept == Continued(1, m, [readers |-> <<>>, maps |-> maps, fps |-> fps,
                                  outcomes |-> <<>>])
         all == Discovered(Candidates \ claimed, kept)
         liveM == {all.readers[k].FileAttributes : k \in 1..Len(all.readers)}
         liveF == {all.readers[k].Fingerprint : k \in 1..Len(all.readers)}
     IN /\ readers' = [k \in 1..Len(all.readers) |->
                         [all.readers[k] EXCEPT !.FileAttributes = Moved(@, liveM),
                                                !.Fingerprint = Moved(@, liveF)]]
        /\ maps' = Compact(all.maps, liveM)
        /\ fps' = Compact(all.fps, liveF)
        /\ cycle' = [cycle EXCEPT !.pc = "read",
                                  !.since = [ino \in Inodes |-> Since(ino, all.readers)]]
        /\ last' = [NoCall EXCEPT !.op = "reconcile", !.outcomes = all.outcomes]
  /\ UNCHANGED <<cfg, files, paths, pipelines, emitted>>
  /\ UNCHANGED <<headerController, selected>>

\* readToEnd() of every Reader of the cycle, from the Reader i on.
RECURSIVE ReadEach(_, _)
ReadEach(i, rs) ==
  IF i > Len(rs.readers) THEN rs
  ELSE LET r == rs.readers[i]
           content == files[r.file.ino]
           one == ReadFrom(content, Scan(r, rs.maps, rs.pipelines, rs.emitted,
                                         Len(content)))
       IN ReadEach(i + 1,
            [readers |-> [rs.readers EXCEPT ![i] = one.r],
             maps |-> one.maps, pipelines |-> one.pipelines, emitted |-> one.emitted,
             fps |-> Refreshed(rs.fps, r.Fingerprint, content)])

\* The read pass of a cycle.
ReadAll ==
  /\ cycle.pc = "read"
  /\ LET rs == ReadEach(1, [readers |-> readers, maps |-> maps, pipelines |-> pipelines,
                            emitted |-> emitted, fps |-> fps])
     IN /\ readers' = rs.readers
        /\ maps' = rs.maps
        /\ pipelines' = rs.pipelines
        /\ emitted' = rs.emitted
        /\ fps' = rs.fps
  /\ cycle' = [cycle EXCEPT !.pc = "idle"]
  /\ last' = [NoCall EXCEPT !.op = "readAll"]
  /\ UNCHANGED <<cfg, files, paths>>
  /\ UNCHANGED <<headerController, selected>>

\* The application appends to the file at path 1: records of one data byte,
\* which names the file's generation, and a newline.
Write ==
  LET ino == paths[1]
      byte == IF Len(files[ino]) % 2 = 1 THEN NewLine
              ELSE IF cycle.truncated THEN 2 ELSE ino
  IN /\ Len(files[ino]) < EngineLen
     /\ files' = [files EXCEPT ![ino] = Append(@, byte)]
     /\ last' = NoCall
     /\ UNCHANGED <<cfg, paths, readers, maps, fps, pipelines, emitted, cycle>>
     /\ UNCHANGED <<headerController, selected>>

\* A Reader that tracks the inode, with bytes in its Fingerprint.
Tracked(ino) ==
  {i \in 1..Len(readers) : readers[i].file.ino = ino /\ PriorFp(readers[i]) # <<>>}

\* Rename rotation, between two cycles: the tracked file F moves to path 2
\* and a new file that starts with other bytes appears at path 1.
Rotate ==
  /\ cycle.pc = "idle"
  /\ ~cycle.rotated /\ ~cycle.truncated
  /\ Tracked(1) # {}
  /\ paths' = [p \in Watched |-> IF p = 1 THEN 2 ELSE 1]
  /\ files' = [files EXCEPT ![2] = <<2, NewLine>>]
  /\ cycle' = [cycle EXCEPT !.rotated = TRUE]
  /\ last' = NoCall
  /\ UNCHANGED <<cfg, readers, maps, fps, pipelines, emitted>>
  /\ UNCHANGED <<headerController, selected>>

\* Copy-truncate rotation, between two cycles: the tracked file, of which a
\* Reader has read bytes, is cut to length 0; what is written from then on
\* starts with other bytes.
TruncateTracked ==
  /\ cycle.pc = "idle"
  /\ ~cycle.rotated /\ ~cycle.truncated
  /\ \E i \in Tracked(1) : readers[i].Offset > 0
  /\ files' = [files EXCEPT ![1] = <<>>]
  /\ cycle' = [cycle EXCEPT !.truncated = TRUE, !.mark = Len(emitted)]
  /\ last' = NoCall
  /\ UNCHANGED <<cfg, paths, readers, maps, fps, pipelines, emitted>>
  /\ UNCHANGED <<headerController, selected>>

\* The rotated file is deleted.
Remove ==
  /\ cycle.pc = "idle"
  /\ cycle.rotated /\ paths[2] # 0
  /\ paths' = [paths EXCEPT ![2] = 0]
  /\ last' = NoCall
  /\ UNCHANGED <<cfg, files, readers, maps, fps, pipelines, emitted, cycle>>
  /\ UNCHANGED <<headerController, selected>>

EngineInit ==
  /\ cfg \in {c \in DefaultConfigs : ~c.headerSettings}
  /\ files = [i \in Inodes |-> <<>>]
  /\ paths = [p \in Watched |-> IF p = 1 THEN 1 ELSE 0]
  /\ readers = <<>>
  /\ maps = <<>>
  /\ fps = <<>>
  /\ pipelines = <<>>
  /\ emitted = <<>>
  /\ cycle = [NoCycle EXCEPT !.pc = "idle"]
  /\ last = NoCall
  /\ headerController = NoController
  /\ selected = <<>>

EngineNext ==
  \/ Reconcile
  \/ ReadAll
  \/ Write
  \/ Rotate
  \/ TruncateTracked
  \/ Remove

EngineSpec == EngineInit /\ [][EngineNext]_vars

\* ------------------------------------------------------------------ claims
\* The last call was a build that returned a Reader, now at address last.r.
Built == last.op \in {"newReader", "copy", "unsafeReader"} /\ last.r # NoRef
Copied == last.op = "copy" /\ last.r # NoRef
LastLen == Len(files[last.file.ino])

\* C1 (as claimed): the Reader copy(old, newFile) returns has old's Offset,
\* whatever the configuration.
C1_CopyKeepsOffset ==
  Copied => readers[last.r].Offset = last.before.Offset

\* The complete records of `content` from the offset `from` on, as a Reader
\* of the inode emits them.
RECURSIVE RecordsFrom(_, _, _)
RecordsFrom(content, from, ino) ==
  LET nl == NextNewline(content, from + 1)
  IN IF nl = 0 THEN <<>>
     ELSE <<[ino |-> ino, start |-> from, line |-> SubSeq(content, from + 1, nl - 1)]>>
          \o RecordsFrom(content, nl, ino)

\* What was emitted of the inode after the first `from` emissions.
EmittedOf(ino, from) ==
  SelectSeq(SubSeq(emitted, from + 1, Len(emitted)), LAMBDA e : e.ino = ino)

OutcomesOf(kind) == {k \in 1..Len(last.outcomes) : last.outcomes[k].kind = kind}

\* C4 (as claimed): in the cycle after F was renamed to F' and a new file
\* with an unrelated fingerprint appeared at F's path, exactly one Reader
\* continues, bound to F' with the Offset and the fingerprint the Reader of F
\* had, and exactly one Reader is new, on the new file, at Offset 0 or at the
\* end as configured; and once the cycle has read, what was emitted of F is
\* each of its complete records from where its first Reader started, once.
C4_Readers ==
  (last.op = "reconcile" /\ cycle.rotated /\ OutcomesOf("rotate") # {}) =>
     /\ Cardinality(OutcomesOf("rotate")) = 1
     /\ \A k \in OutcomesOf("rotate") :
          LET o == last.outcomes[k]
              r == readers[o.r]
          IN /\ r.file = [ino |-> 1, name |-> PathName(2)]
             /\ r.Offset = o.before.Offset
             /\ fps[r.Fingerprint] = o.before.Fingerprint
     /\ Cardinality(OutcomesOf("new")) = 1
     /\ \A k \in OutcomesOf("new") :
          LET r == readers[last.outcomes[k].r]
          IN /\ r.file = [ino |-> 2, name |-> PathName(1)]
             /\ r.Offset = IF cfg.fromBeginning THEN 0 ELSE Len(files[2])

C4_Records ==
  (last.op = "readAll" /\ cycle.rotated /\ paths[2] = 1) =>
     EmittedOf(1, 0) = RecordsFrom(files[1], cycle.since[1], 1)

\* C4 (as claimed): both parts, the Readers of the cycle and the records.
C4_RotationContinuity == C4_Readers /\ C4_Records

\* C5 (as claimed): in the cycle after a tracked file was cut below the
\* Offset of its Reader and written with content that does not extend the
\* old fingerprint, the Reader that continues on the file is at Offset 0; no
\* Offset is negative; and once a cycle has read, what was emitted of the
\* file since the cut is each complete record of its new content, once.
C5_Reset ==
  (last.op = "reconcile" /\ cycle.truncated) =>
     /\ \A k \in OutcomesOf("truncate") :
          LET r == readers[last.outcomes[k].r]
          IN r.file = [ino |-> 1, name |-> PathName(1)] /\ r.Offset = 0
     /\ \A i \in 1..Len(readers) : readers[i].Offset >= 0

C5_Records ==
  (last.op = "readAll" /\ cycle.truncated) =>
     EmittedOf(1, cycle.mark) = RecordsFrom(files[1], 0, 1)

\* C5 (as claimed): both parts, the reset of the Offset and the records.
C5_TruncationResets == C5_Reset /\ C5_Records

\* C2: a Reader copied from one whose header is finalized has its header
\* finalized, starts with its line split function and emit, and has no header
\* pipeline; the copy starts no pipeline, also when it fails; and the
\* HeaderFinalized of a Reader never goes back to false.
C2_Copy ==
  (last.op = "copy" /\ last.before.HeaderFinalized) =>
     /\ last.started = 0
     /\ last.r # NoRef =>
          LET r == readers[last.r]
          IN /\ r.HeaderFinalized
             /\ r.splitFunc = r.lineSplitFunc
             /\ r.processFunc = "emit"
             /\ r.headerPipeline = NoRef

C2_OneWay ==
  \A i \in 1..Len(readers) : readers[i].HeaderFinalized => readers'[i].HeaderFinalized

\* C2: every copy of a finalized Reader is finalized and starts no header
\* pipeline, and no step takes HeaderFinalized back to false.
C2_FinalizedSurvivesCopy == []C2_Copy /\ [][C2_OneWay]_vars

\* C2: a copy, under header settings, of a Reader whose header is finalized
C2_Witness == Copied /\ cfg.headerSettings /\ last.before.HeaderFinalized

\* C3 (as claimed): every Reader bound to a file has Offset <= the current
\* length of that file.
C3_OffsetWithinFile ==
  \A i \in 1..Len(readers) :
    readers[i].file # NoFile => readers[i].Offset <= Len(files[readers[i].file.ino])

\* C3 (amended): right after newReader the Offset is at most the length of
\* the file; right after copy(old, newFile) it is when old.Offset is at most
\* the length of the file behind newFile.
C3_OffsetWithinFileAfterBuild ==
  (/\ Built
   /\ last.file # NoFile
   /\ last.op = "copy" => last.before.Offset <= LastLen)
  => readers[last.r].Offset <= LastLen

\* C3: a copy that kept an Offset within the new file, fromBeginning set
C3_Witness ==
  /\ Copied
  /\ cfg.fromBeginning
  /\ last.before.Offset > 0
  /\ last.before.Offset <= LastLen
  /\ readers[last.r].Offset = last.before.Offset

\* C6: no step changes what a Reader holds (Offset, HeaderFinalized, the
\* bytes of its Fingerprint, the entries of its attribute map) but a
\* readToEnd of that very Reader: copy leaves old as it was, and so does
\* whatever happens to the successor afterwards.
C6_Frame ==
  \A i \in 1..Len(readers) :
    \/ last'.op = "readToEnd" /\ last'.r = i
    \/ ReaderView(i)' = ReaderView(i)

\* C6: in every step, every Reader but one that reads holds what it held.
C6_CopyLeavesOldAlone == [][C6_Frame]_vars

\* C6: build has changed the successor's attributes, and old's are as before
C6_Witness ==
  /\ Copied
  /\ ReaderView(last.r).Fingerprint = last.before.Fingerprint
  /\ ReaderView(last.r).FileAttributes # last.before.FileAttributes
  /\ ReaderView(last.old) = last.before

\* C8: a Reader build returns is in the header phase (header split function,
\* consumeHeaderLine, a started header pipeline of its own) exactly when
\* header settings are configured and the builder's headerFinalized is false;
\* otherwise it has its line split function, emit, and no header pipeline.
C8_HeaderPhaseIff ==
  Built =>
    LET r == readers[last.r]
        finalized == last.op = "copy" /\ last.before.HeaderFinalized
    IN IF cfg.headerSettings /\ ~finalized
         THEN /\ r.splitFunc = "headerSplitFunc"
              /\ r.processFunc = "consumeHeaderLine"
              /\ r.headerPipeline # NoRef
              /\ pipelines[r.headerPipeline].started
              /\ last.started = 1
         ELSE /\ r.splitFunc = r.lineSplitFunc
              /\ r.processFunc = "emit"
              /\ r.headerPipeline = NoRef
              /\ last.started = 0

\* C8: a copy in the header phase: header settings configured, old not finalized
C8_Witness ==
  /\ Copied
  /\ cfg.headerSettings
  /\ ~last.before.HeaderFinalized
  /\ readers[last.r].processFunc = "consumeHeaderLine"

\* C9: the Reader newReader returns has Offset 0 when fromBeginning is true
\* and the current length of the file when it is false; newReader emits no
\* record.
C9_NewReaderOffset ==
  (last.op = "newReader" /\ last.r # NoRef) =>
    readers[last.r].Offset = (IF cfg.fromBeginning THEN 0 ELSE LastLen)

C9_NoEmission == last'.op = "newReader" => emitted' = emitted

\* C9: newReader starts at 0 or at the end as configured, and emits nothing.
C9_NewReaderStart == []C9_NewReaderOffset /\ [][C9_NoEmission]_vars

\* C9: a newReader at the end of a file that holds bytes
C9_Witness ==
  /\ last.op = "newReader"
  /\ last.r # NoRef
  /\ ~cfg.fromBeginning
  /\ LastLen > 0
  /\ readers[last.r].Offset = LastLen

\* C10: a build that returns an error returns no Reader, at each of its six
\* failing steps; and a Reader in the header phase has a started pipeline.
C10_ErrorMeansNoReader ==
  /\ last.err # Nil => last.r = NoRef
  /\ last.op \in {"newReader", "copy", "unsafeReader"} /\ last.err = Nil => last.r # NoRef
  /\ \A i \in 1..Len(readers) :
       readers[i].processFunc = "consumeHeaderLine" =>
         /\ readers[i].headerPipeline # NoRef
         /\ pipelines[readers[i].headerPipeline].started

\* C10: a build whose header pipeline failed to start
C10_Witness ==
  /\ last.err = "failed to start header pipeline"
  /\ last.r = NoRef
  /\ last.started = 0

\* The include flag of each of the four file attributes.
IncludeFlag(key) ==
  IF key = logFileName THEN cfg.includeFileName
  ELSE IF key = logFilePath THEN cfg.includeFilePath
  ELSE IF key = logFileNameResolved THEN cfg.includeFileNameResolved
  ELSE cfg.includeFilePathResolved

\* C7 (as claimed): in the attribute map of a Reader built on a file, each of
\* the four file attributes is present exactly when its flag is set, whatever
\* the map inherited through copy held; every other inherited key is kept.
C7_AttributesPerFlag ==
  (Built /\ last.file # NoFile) =>
    LET m == maps[readers[last.r].FileAttributes]
        inherited == last.before.FileAttributes
    IN /\ \A key \in FileKeys : key \in DOMAIN m <=> IncludeFlag(key)
       /\ \A key \in (DOMAIN inherited) \ FileKeys :
            key \in DOMAIN m /\ m[key] = inherited[key]

\* C7 (amended): each of the four file attributes is present, with a value
\* that is not nil, when its flag is set; when its flag is not set it is
\* present only if the inherited map held it with a nil value, which build
\* does not delete; every other inherited key is kept.
C7_AttributesPerFlagUnlessNil ==
  (Built /\ last.file # NoFile) =>
    LET m == maps[readers[last.r].FileAttributes]
        inherited == last.before.FileAttributes
    IN /\ \A key \in FileKeys :
            IF IncludeFlag(key) THEN key \in DOMAIN m /\ m[key] # Nil
            ELSE key \in DOMAIN m <=> (key \in DOMAIN inherited /\ inherited[key] = Nil)
       /\ \A key \in (DOMAIN inherited) \ FileKeys :
            key \in DOMAIN m /\ m[key] = inherited[key]

\* C7: a copy that dropped an inherited file attribute, kept an inherited
\* key that is none of the four, and kept the file path inherited with a nil
\* value though the path is not included
C7_Witness ==
  /\ Copied
  /\ \E key \in FileKeys :
       /\ key \in DOMAIN last.before.FileAttributes
       /\ key \notin DOMAIN ReaderView(last.r).FileAttributes
  /\ "header" \in DOMAIN ReaderView(last.r).FileAttributes
  /\ ~cfg.includeFilePath
  /\ logFilePath \in DOMAIN ReaderView(last.r).FileAttributes

\* C11: the Reader unsafeReader returns has no file, Offset 0, no Fingerprint
\* and an empty attribute map; unsafeReader never fails at offsetToEnd or at
\* the fingerprint, and with those two steps set to fail it still returns a
\* Reader and allocates no Fingerprint: it does not reach them.
C11_UnsafeReaderBare ==
  /\ (last.op = "unsafeReader" /\ last.r # NoRef) =>
       LET r == readers[last.r]
       IN /\ r.file = NoFile
          /\ r.Offset = 0
          /\ r.Fingerprint = NoRef
          /\ maps[r.FileAttributes] = EmptyMap
  /\ last.op = "unsafeReader" => last.err \notin {"offsetToEnd", "newFingerprint"}
  /\ \A fail \in {"offsetToEnd", "fingerprint"} :
       LET res == UnsafeReaderBuilt(fail)
       IN res.ret /\ res.fps = fps /\ res.r.Offset = 0

\* C11: a placeholder built next to a Reader of a file, with fromBeginning
\* false and every file attribute included
C11_Witness ==
  /\ last.op = "unsafeReader"
  /\ last.r = 2
  /\ readers[1].file # NoFile
  /\ ~cfg.fromBeginning
  /\ \A key \in FileKeys : IncludeFlag(key)
  /\ maps[readers[2].FileAttributes] = EmptyMap

\* The Readers that hold the handle h: bound to it and not Closed.
Holders(h) ==
  {i \in 1..Len(readers) : readers[i].file = h /\ ~readers[i].closed}

\* C12 (as claimed): in every state, no handle is held by more than one
\* Reader that is not Closed.
C12_ExclusiveHandle ==
  \A h \in Handles : Cardinality(Holders(h)) <= 1

\* A call of the factory with a handle that no Reader holds when it is made.
C12_FreeHandle ==
  last'.op \in {"newReader", "copy"} => Holders(last'.file) = {}

\* No Reader that exists is bound to another handle; one that is Closed stays
\* Closed and is not read; copy returns a new Reader, bound to the handle given.
C12_NoResurrection ==
  /\ Len(readers') >= Len(readers)
  /\ \A i \in 1..Len(readers) :
       /\ readers'[i].file = readers[i].file
       /\ readers[i].closed => readers'[i] = readers[i]
  /\ (last'.op = "copy" /\ last'.r # NoRef) =>
       /\ last'.r = Len(readers) + 1
       /\ readers'[last'.r].file = last'.file
       /\ ~readers'[last'.r].closed

\* C12 (amended): a step keeps the handles exclusively held unless it is a
\* newReader or a copy onto a handle that a Reader still holds, which the
\* factory does not refuse; and no step rebinds or reopens a Reader.
C12_ExclusiveUnlessShared ==
  [][/\ (C12_ExclusiveHandle /\ C12_FreeHandle) => C12_ExclusiveHandle'
     /\ C12_NoResurrection]_vars

\* C12: a rotation continuation onto the handle of old, which was Closed
\* before: the successor alone holds the handle
C12_Witness ==
  /\ Copied
  /\ readers[last.old].closed
  /\ readers[last.r].file = readers[last.old].file
  /\ Holders(last.file) = {last.r}
  /\ C12_ExclusiveHandle

\* The records that a Reader in its header phase hands to the header
\* pipeline: the header lines before the first other line.
RECURSIVE AfterHeader(_)
AfterHeader(recs) ==
  IF recs = <<>> THEN <<>>
  ELSE IF IsHeaderLine(recs[1].line) THEN AfterHeader(Tail(recs))
  ELSE recs

\* The records of the Reader r that lie before the offset `to`, less those
\* the header pipeline consumes.
C13_Passed(r, to) ==
  LET all == SelectSeq(RecordsFrom(files[r.file.ino], r.Offset, r.file.ino),
                       LAMBDA e : e.start < to)
  IN IF r.processFunc = "emit" THEN all ELSE AfterHeader(all)

\* C13: a readToEnd moves Offset forward past exactly the records it has
\* handed to the downstream consumer (or, in the header phase, to the header
\* pipeline); when an emission fails Offset stays where that record starts,
\* so that the record is still to be read, and a read whose emissions succeed
\* leaves no complete record behind.
C13_OffsetAfterEmit ==
  [][last'.op = "readToEnd" =>
       LET i == last'.r
           r == readers[i]
           to == readers'[i].Offset
           content == files[r.file.ino]
       IN /\ to >= r.Offset
          /\ SubSeq(emitted', Len(emitted) + 1, Len(emitted')) = C13_Passed(r, to)
          /\ SubSeq(emitted', 1, Len(emitted)) = emitted
          /\ last'.err = "emit" => NextNewline(content, to + 1) # 0
          /\ last'.err # "emit" => NextNewline(content, to + 1) = 0]_vars

\* C13: a record whose emission failed in the last read of the Reader was
\* read again and emitted by this one, once
C13_Witness ==
  /\ last.op = "readToEnd"
  /\ last.retry
  /\ \E e \in 1..Len(emitted) :
       /\ emitted[e].ino = readers[last.r].file.ino
       /\ emitted[e].start > 0
       /\ \A d \in 1..Len(emitted) : emitted[d] = emitted[e] => d = e

\* The records a step has emitted.
C14_New == SubSeq(emitted', Len(emitted) + 1, Len(emitted'))

\* A record of the file that ends in a newline.
C14_Complete(e) ==
  LET content == files[e.ino]
      nl == e.start + Len(e.line) + 1
  IN /\ nl <= Len(content)
     /\ content[nl] = NewLine
     /\ \A k \in 1..Len(e.line) : e.line[k] = content[e.start + k] /\ e.line[k] # NewLine

C18_CapturedFrom(fp, h) ==
  /\ Len(fp) <= cfg.fingerprintSize
  /\ Len(fp) <= Len(files[h.ino])
  /\ Len(fp) = cfg.fingerprintSize \/ Len(fp) = Len(files[h.ino])
  /\ \A k \in 1..Len(fp) : fp[k] = files[h.ino][k]

\* C18: a build that is given a Fingerprint (newReader with one, or copy)
\* returns a Reader with that very Fingerprint, allocates no other and does
\* not fail when the file cannot be read for one; a newReader that is given
\* none captures it from the file, at most fingerprintSize bytes, and the
\* Reader's Offset is 0, or the length of the file when fromBeginning is
\* false, after as before the capture.
C18_FingerprintGivenOrCaptured ==
  [][(last'.op \in {"newReader", "copy"} /\ last'.r # NoRef) =>
       LET r == readers'[last'.r]
           h == last'.file
       IN /\ r.Fingerprint = Len(fps) + 1
          /\ Len(fps') = Len(fps) + 1
          /\ \A f \in 1..Len(fps) : fps'[f] = fps[f]
          /\ last'.op = "copy" =>
               /\ fps'[r.Fingerprint] = fps[readers[last'.old].Fingerprint]
               /\ CopyBuilt(last'.old, h, "fingerprint", FALSE)
                    = CopyBuilt(last'.old, h, "none", FALSE)
          /\ (last'.op = "newReader" /\ last'.given) =>
               NewReaderBuilt(h, TRUE, "fingerprint", FALSE)
                 = NewReaderBuilt(h, TRUE, "none", FALSE)
          /\ (last'.op = "newReader" /\ ~last'.given) =>
               /\ C18_CapturedFrom(fps'[r.Fingerprint], h)
               /\ ~NewReaderBuilt(h, FALSE, "fingerprint", FALSE).ret
          /\ last'.op = "newReader" =>
               r.Offset = IF cfg.fromBeginning THEN 0 ELSE Len(files[h.ino])]_vars

\* C18: a copy whose Fingerprint, old's, is not what a capture from the new
\* file would have given
C18_Witness ==
  /\ Copied
  /\ ~C18_CapturedFrom(fps[readers[last.r].Fingerprint], last.file)
  /\ fps[readers[last.r].Fingerprint] = last.before.Fingerprint

\* C19 (as claimed): a build that returns an error leaves no header pipeline
\* it has started: every started pipeline belongs to a Reader.
C19_NoOrphanPipeline ==
  /\ (last.op \in {"newReader", "copy", "unsafeReader"} /\ last.r = NoRef) =>
       last.started = 0
  /\ \A p \in 1..Len(pipelines) :
       pipelines[p].started => \E i \in 1..Len(readers) : readers[i].headerPipeline = p

\* The calls the listeners have received in a step.
C20_New == SubSeq(selected', Len(selected) + 1, Len(selected'))

\* The number of calls of C20_New that the listener l received.
C20_Calls(l) == Cardinality({k \in 1..Len(C20_New) : C20_New[k].listener = l})

\* C20 (as claimed): each pipelineTypeChanged calls every listener registered
\* before it exactly once.
C20_OncePerListener ==
  [][last'.op = "pipelineTypeChanged" =>
       \A k \in 1..Len(headerController.componentListeners) :
         C20_Calls(headerController.componentListeners[k]) = 1]_vars

\* C20 (amended): each pipelineTypeChanged(t) calls pipelineTypeSelected(t)
\* once for every registration made before it, in registration order (a
\* listener registered twice is called twice), and nothing else; a listener
\* is not called when it registers; getPipelineType() returns the t of the
\* last pipelineTypeChanged.
C20_OncePerRegistration ==
  [][/\ last'.op = "pipelineTypeChanged" =>
          LET ls == headerController.componentListeners
              t == headerController'.pipelineType
          IN /\ t \in PipelineTypes
             /\ Len(C20_New) = Len(ls)
             /\ \A k \in 1..Len(ls) :
                  C20_New[k] = [listener |-> ls[k], pipelineType |-> t]
             /\ SubSeq(selected', 1, Len(selected)) = selected
             /\ headerController'.componentListeners = ls
             /\ GetPipelineType' = t
     /\ last'.op = "addComponentListener" =>
          /\ selected' = selected
          /\ GetPipelineType' = GetPipelineType
          /\ SubSeq(headerController'.componentListeners, 1,
                    Len(headerController.componentListeners))
               = headerController.componentListeners]_vars

\* C20: two listeners, the second registered after a pipelineTypeChanged that
\* it was not called for and before one that called both, the first first
C20_Witness ==
  /\ last.op = "pipelineTypeChanged"
  /\ headerController.componentListeners = <<1, 2>>
  /\ Len(selected) = 3
  /\ selected[1].listener = 1
  /\ selected[2] = [listener |-> 1, pipelineType |-> GetPipelineType]
  /\ selected[3] = [listener |-> 2, pipelineType |-> GetPipelineType]
  /\ selected[1].pipelineType # GetPipelineType

====
